---- MODULE Spec2Model ----
(***************************************************************************)
(* Verification model of three peripheral programs of the repository:      *)
(*   - the ExponentialShift trainer extension as driven by its unit test   *)
(*     (tests/chainer_tests/.../test_exponential_shift.py),                *)
(*   - the wheel metadata generator (cupyx/tools/_generate_wheel_metadata),*)
(*   - the k-means example (examples/kmeans/kmeans.py).                    *)
(* Floating-point values are modelled as exact rationals [n, d] (d > 0);   *)
(* d = 0 stands for Python's None.                                         *)
(***************************************************************************)
EXTENDS Integers, Sequences, FiniteSets, TLC

VARIABLES
    \* ---- exponential shift test harness ----
    s_pc,        \* position of the test: setup, constructed, loop, ValueError
    s_mode,      \* which test method drives the run
    s_init,      \* test parameter init
    s_rate,      \* test parameter rate
    s_target,    \* test parameter target (None allowed)
    iteration,   \* trainer.updater.iteration
    opt_x,       \* trainer.updater.optimizer.x
    own_x,       \* optimizer.x of the separately passed optimizer
    ext,         \* the extension object under test
    observed,    \* the value the last assertEqual(optimizer.x, e) looked at
    restores,    \* number of save_npz/load_npz round trips done
    ref_ext,     \* extension of an uninterrupted test_basic run (lockstep)
    ref_x,       \* optimizer.x of the uninterrupted test_basic run
    ref_observed,\* value observed by the uninterrupted test_basic run
    \* ---- wheel metadata generator ----
    w_pc,           \* loop, returned, RuntimeError, KeyError
    w_cuda,         \* argument cuda_version
    w_target,       \* argument target_system
    w_libs,         \* argument libraries
    w_i,            \* number of libraries the loop has taken up
    w_recs,         \* what the latest _get_records call returned
    wheel_metadata, \* the local dictionary being filled
    w_result,       \* the returned dictionary (empty before the return)
    \* ---- k-means ----
    k_pc,        \* loop, done
    X,           \* the data, one point per row
    n_clusters,  \* argument n_clusters
    max_iter,    \* argument max_iter
    elem,        \* the elementwise kernels are used (elem and xp is cupy)
    centers,     \* one center per cluster: coordinate sums and point count
    pred,        \* the label of every point
    k_iter,      \* passes of the loop body begun
    k_exit       \* how the loop ended: none, break, exhausted

shiftVars == <<s_pc, s_mode, s_init, s_rate, s_target, iteration, opt_x, own_x,
               ext, observed, restores, ref_ext, ref_x, ref_observed>>
wheelVars == <<w_pc, w_cuda, w_target, w_libs, w_i, w_recs, wheel_metadata, w_result>>
kmeansVars == <<k_pc, X, n_clusters, max_iter, elem, centers, pred, k_iter, k_exit>>
vars == <<shiftVars, wheelVars, kmeansVars>>

----------------------------------------------------------------------------
(* Exact rational arithmetic standing for Python floats.                   *)

Abs(i) == IF i < 0 THEN -i ELSE i

RECURSIVE GCD(_, _)
GCD(a, b) == IF b = 0 THEN a ELSE GCD(b, a % b)

Rat(n, d) == LET g == GCD(Abs(n), d) IN [n |-> n \div g, d |-> d \div g]

None == [n |-> 0, d |-> 0]
IsNone(v) == v.d = 0

Mul(a, b) == Rat(a.n * b.n, a.d * b.d)

\* a / b > 1 and a / b < 1 for rationals a, b with b # 0
RatioGt1(a, b) ==
    LET num == a.n * b.d
        den == a.d * b.n
    IN IF den > 0 THEN num > den ELSE num < den

RatioLt1(a, b) ==
    LET num == a.n * b.d
        den == a.d * b.n
    IN IF den > 0 THEN num < den ELSE num > den

----------------------------------------------------------------------------
(* Bounds and parameters of the exponential shift runs.                    *)

MaxUpdates == 9
MaxRestores == 1
interval == 4

Inits == {Rat(2, 1), Rat(-2, 1)}
Rates == {Rat(1, 2), Rat(2, 1), Rat(3, 2), Rat(0, 1), Rat(-1, 1)}
\* the targets of the test's parameter sets: beyond init in the direction the
\* rate moves the value, with the sign of init
TargetsOf(init, rate) ==
    LET sign == IF init.n > 0 THEN 1 ELSE -1
    IN IF rate.n > rate.d THEN {None, Rat(3 * sign, 1)}
       ELSE {None, Rat(6 * sign, 5)}
Modes == {"basic", "serialize", "with_init", "with_optimizer"}

----------------------------------------------------------------------------
(* The ExponentialShift extension.                                         *)

invoke_before_training == TRUE

NoExt == [rate |-> None, init |-> None, target |-> None, own |-> FALSE,
          value |-> None, applied |-> FALSE]

RateRejected_Never(rate) == FALSE

\* ExponentialShift.__init__ rejects a negative rate
RateRejected(rate) == rate.n < 0

NewExtension(rate, init, target, own) ==
    [rate |-> rate, init |-> init, target |-> target, own |-> own,
     value |-> None, applied |-> FALSE]

\* min(value, target) and max(value, target) taken literally
ClampToTarget_PlainComparison(value, rate, target) ==
    IF IsNone(target) THEN value
    ELSE IF rate.n > rate.d
         THEN IF value.n * target.d > target.n * value.d THEN target ELSE value
         ELSE IF value.n * target.d < target.n * value.d THEN target ELSE value

\* the bound on the value: growing sequences are cut at the target from
\* below, the others from above; the ratio handles negative values
ClampToTarget(value, rate, target) ==
    IF IsNone(target) THEN value
    ELSE IF rate.n > rate.d
         THEN IF RatioGt1(value, target) THEN target ELSE value
         ELSE IF RatioLt1(value, target) THEN target ELSE value

\* the value one application of the extension sets, given the attribute's
\* current value x: the first application of an instance establishes the
\* value (restored state, else init, else the attribute), later ones shift
ShiftedValue(e, x) ==
    LET base == IF e.applied THEN Mul(e.value, e.rate)
                ELSE IF ~IsNone(e.value) THEN e.value
                ELSE IF ~IsNone(e.init) THEN e.init
                ELSE x
    IN ClampToTarget(base, e.rate, e.target)

CallExtension(e, x) == [e EXCEPT !.value = ShiftedValue(e, x), !.applied = TRUE]

\* serialize: the state is the single current value
SaveState(e) == e.value
LoadState(e, saved) == [e EXCEPT !.value = saved]

----------------------------------------------------------------------------
(* The test harness.                                                       *)

\* get_trigger((interval, 'iteration')) applied to the mocked trainer
trigger(it) == it > 0 /\ it % interval = 0

\* the optimizer attribute the extension under test manages
Attr == IF s_mode = "with_optimizer" THEN own_x ELSE opt_x

IdleWheel ==
    /\ w_pc = "idle" /\ w_cuda = "" /\ w_target = "" /\ w_libs = <<>>
    /\ w_i = 0 /\ w_recs = <<>> /\ wheel_metadata = <<>> /\ w_result = <<>>

IdleKMeans ==
    /\ k_pc = "idle" /\ X = <<>> /\ n_clusters = 0 /\ max_iter = 0
    /\ elem = FALSE /\ centers = <<>> /\ pred = <<>> /\ k_iter = 0
    /\ k_exit = "none"

IdleShift ==
    /\ s_pc = "idle" /\ s_mode = "" /\ s_init = None /\ s_rate = None
    /\ s_target = None /\ iteration = 0 /\ opt_x = None /\ own_x = None
    /\ ext = NoExt /\ observed = None /\ restores = 0
    /\ ref_ext = NoExt /\ ref_x = None /\ ref_observed = None

\* setUp / _get_mocked_trainer(init); test_with_init presets x to 0 and
\* test_with_optimizer makes its own optimizer with x = init
InitShift ==
    /\ s_pc = "setup"
    /\ s_mode \in Modes
    /\ s_init \in Inits
    /\ s_rate \in Rates
    /\ s_target \in TargetsOf(s_init, s_rate)
    /\ iteration = 0
    /\ opt_x = IF s_mode = "with_init" THEN Rat(0, 1) ELSE s_init
    /\ own_x = IF s_mode = "with_optimizer" THEN s_init ELSE None
    /\ ext = NoExt
    /\ observed = None
    /\ restores = 0
    /\ ref_ext = NoExt
    /\ ref_x = s_init
    /\ ref_observed = None
    /\ IdleWheel
    /\ IdleKMeans

\* test_with_init without init=self.init
Construct_NoInit ==
    /\ s_pc = "setup"
    /\ IF RateRejected(s_rate)
       THEN /\ s_pc' = "ValueError"
            /\ UNCHANGED <<ext, ref_ext>>
       ELSE /\ s_pc' = "constructed"
            /\ ext' = NewExtension(s_rate, None, s_target, s_mode = "with_optimizer")
            /\ ref_ext' = NewExtension(s_rate, None, s_target, FALSE)
    /\ UNCHANGED <<s_mode, s_init, s_rate, s_target, iteration, opt_x, own_x,
                   observed, restores, ref_x, ref_observed>>
    /\ UNCHANGED <<wheelVars, kmeansVars>>

\* extensions.ExponentialShift('x', rate, ...) in the test methods
Construct ==
    /\ s_pc = "setup"
    /\ IF RateRejected(s_rate)
       THEN /\ s_pc' = "ValueError"
            /\ UNCHANGED <<ext, ref_ext>>
       ELSE /\ s_pc' = "constructed"
            /\ ext' = NewExtension(s_rate,
                                   IF s_mode = "with_init" THEN s_init ELSE None,
                                   s_target, s_mode = "with_optimizer")
            /\ ref_ext' = NewExtension(s_rate, None, s_target, FALSE)
    /\ UNCHANGED <<s_mode, s_init, s_rate, s_target, iteration, opt_x, own_x,
                   observed, restores, ref_x, ref_observed>>
    /\ UNCHANGED <<wheelVars, kmeansVars>>

\* _run_trainer without the call before training
BeforeTraining_Skipped ==
    /\ s_pc = "constructed"
    /\ s_pc' = "loop"
    /\ UNCHANGED <<ext, opt_x, own_x, ref_ext, ref_x>>
    /\ UNCHANGED <<s_mode, s_init, s_rate, s_target, iteration, observed,
                   restores, ref_observed>>
    /\ UNCHANGED <<wheelVars, kmeansVars>>

\* _run_trainer: if extension.invoke_before_training: extension(trainer)
BeforeTraining ==
    /\ s_pc = "constructed"
    /\ s_pc' = "loop"
    /\ IF invoke_before_training
       THEN /\ ext' = CallExtension(ext, Attr)
            /\ IF ext.own
               THEN own_x' = ext'.value /\ UNCHANGED opt_x
               ELSE opt_x' = ext'.value /\ UNCHANGED own_x
            /\ IF restores = 0
               THEN /\ ref_ext' = CallExtension(ref_ext, ref_x)
                    /\ ref_x' = ref_ext'.value
               ELSE UNCHANGED <<ref_ext, ref_x>>
       ELSE UNCHANGED <<ext, opt_x, own_x, ref_ext, ref_x>>
    /\ UNCHANGED <<s_mode, s_init, s_rate, s_target, iteration, observed,
                   restores, ref_observed>>
    /\ UNCHANGED <<wheelVars, kmeansVars>>

\* the loop body without `if self.trigger(self.trainer)`
LoopStep_AlwaysCalls ==
    /\ s_pc = "loop"
    /\ iteration < MaxUpdates
    /\ iteration' = iteration + 1
    /\ observed' = Attr
    /\ ref_observed' = ref_x
    /\ ext' = CallExtension(ext, Attr)
    /\ IF ext.own
       THEN own_x' = ext'.value /\ UNCHANGED opt_x
       ELSE opt_x' = ext'.value /\ UNCHANGED own_x
    /\ ref_ext' = CallExtension(ref_ext, ref_x)
    /\ ref_x' = ref_ext'.value
    /\ UNCHANGED <<s_pc, s_mode, s_init, s_rate, s_target, restores>>
    /\ UNCHANGED <<wheelVars, kmeansVars>>

\* _run_trainer, one pass of the loop body: update(), assertEqual on the
\* attribute, then the extension if the trigger fires
LoopStep ==
    /\ s_pc = "loop"
    /\ iteration < MaxUpdates
    /\ iteration' = iteration + 1
    /\ observed' = Attr
    /\ ref_observed' = ref_x
    /\ IF trigger(iteration')
       THEN /\ ext' = CallExtension(ext, Attr)
            /\ IF ext.own
               THEN own_x' = ext'.value /\ UNCHANGED opt_x
               ELSE opt_x' = ext'.value /\ UNCHANGED own_x
            /\ ref_ext' = CallExtension(ref_ext, ref_x)
            /\ ref_x' = ref_ext'.value
       ELSE UNCHANGED <<ext, opt_x, own_x, ref_ext, ref_x>>
    /\ UNCHANGED <<s_pc, s_mode, s_init, s_rate, s_target, restores>>
    /\ UNCHANGED <<wheelVars, kmeansVars>>

\* test_serialize with the second extension made without the target
SaveLoad_DropsTarget ==
    /\ s_pc = "loop"
    /\ s_mode = "serialize"
    /\ restores < MaxRestores
    /\ restores' = restores + 1
    /\ ext' = LoadState(NewExtension(s_rate, None, None, FALSE), SaveState(ext))
    /\ s_pc' = "constructed"
    /\ UNCHANGED <<s_mode, s_init, s_rate, s_target, iteration, opt_x, own_x,
                   observed, ref_ext, ref_x, ref_observed>>
    /\ UNCHANGED <<wheelVars, kmeansVars>>

\* test_serialize: save_npz of the extension, a fresh extension with the
\* same arguments, load_npz into it; _run_trainer then starts over
SaveLoad ==
    /\ s_pc = "loop"
    /\ s_mode = "serialize"
    /\ restores < MaxRestores
    /\ restores' = restores + 1
    /\ ext' = LoadState(NewExtension(s_rate, None, s_target, FALSE), SaveState(ext))
    /\ s_pc' = "constructed"
    /\ UNCHANGED <<s_mode, s_init, s_rate, s_target, iteration, opt_x, own_x,
                   observed, ref_ext, ref_x, ref_observed>>
    /\ UNCHANGED <<wheelVars, kmeansVars>>

NextShift == Construct \/ BeforeTraining \/ LoopStep \/ SaveLoad

SpecShift == InitShift /\ [][NextShift]_vars

----------------------------------------------------------------------------
(* The wheel metadata generator.                                           *)

MaxLibs == 2
MaxRecords == 2

Libraries == {"cudnn", "cutensor", "nccl"}
CudaVersions == {"11.x", "12.x"}
Systems == {"Linux", "Windows"}

\* the records install_library.py dumps: the CUDA version a record is for,
\* the library's version (record[library], distinct along a list) and the
\* assets of the systems the record supports
Record(c, v, S) ==
    [cuda |-> c, version |-> v,
     assets |-> [s \in S |-> [filenames |-> <<v, s>>]]]

RecordsAt(v) ==
    {Record(c, v, S) : c \in CudaVersions, S \in {{"Linux"}, Systems}}

RecordLists ==
    UNION {{r \in [1..n -> UNION {RecordsAt(v) : v \in 1..n}] :
              \A j \in 1..n : r[j].version = j} : n \in 0..MaxRecords}

LibraryLists == UNION {[1..n -> Libraries] : n \in 0..MaxLibs}

\* for record in records: if record['cuda'] == cuda_version: ... break
\* the index of the record the loop stops at, 0 when it runs into its else
FirstMatch_Last(records, cuda_version) ==
    IF \E j \in 1..Len(records) : records[j].cuda = cuda_version
    THEN CHOOSE j \in 1..Len(records) :
            /\ records[j].cuda = cuda_version
            /\ \A k \in (j + 1)..Len(records) : records[k].cuda # cuda_version
    ELSE 0

FirstMatch_AnyRecord(records, cuda_version) ==
    IF \E j \in 1..Len(records) : records[j].cuda = cuda_version
    THEN CHOOSE j \in 1..Len(records) :
            /\ records[j].cuda = cuda_version
            /\ \A k \in 1..(j - 1) : records[k].cuda # cuda_version
    ELSE IF Len(records) > 0 THEN 1 ELSE 0

RECURSIVE FirstMatchFrom(_, _, _)
FirstMatchFrom(records, cuda_version, j) ==
    IF j > Len(records) THEN 0
    ELSE IF records[j].cuda = cuda_version THEN j
    ELSE FirstMatchFrom(records, cuda_version, j + 1)

FirstMatch(records, cuda_version) == FirstMatchFrom(records, cuda_version, 1)

\* wheel_metadata[library] = metadata
SetItem(d, key, value) ==
    [k \in DOMAIN d \cup {key} |-> IF k = key THEN value ELSE d[k]]

InitWheel ==
    /\ w_pc = "loop"
    /\ w_cuda \in CudaVersions
    /\ w_target \in Systems
    /\ w_libs \in LibraryLists
    /\ w_i = 0
    /\ w_recs = <<>>
    /\ wheel_metadata = [k \in {"cuda", "packaging"} |->
                            IF k = "cuda" THEN w_cuda ELSE "pip"]
    /\ w_result = <<>>
    /\ IdleShift
    /\ IdleKMeans

\* one pass of `for library in libraries`, with what _get_records returns
WheelLibrary ==
    /\ w_pc = "loop"
    /\ w_i < Len(w_libs)
    /\ \E records \in RecordLists :
         LET library == w_libs[w_i + 1]
             m == FirstMatch(records, w_cuda)
         IN /\ w_recs' = records
            /\ w_i' = w_i + 1
            /\ IF m = 0
               THEN w_pc' = "RuntimeError" /\ UNCHANGED wheel_metadata
               ELSE IF w_target \notin DOMAIN records[m].assets
               THEN w_pc' = "KeyError" /\ UNCHANGED wheel_metadata
               ELSE /\ w_pc' = "loop"
                    /\ wheel_metadata' =
                         SetItem(wheel_metadata, library,
                                 [version |-> records[m].version,
                                  filenames |->
                                     records[m].assets[w_target].filenames])
    /\ UNCHANGED <<w_cuda, w_target, w_libs, w_result>>
    /\ UNCHANGED <<shiftVars, kmeansVars>>

\* return wheel_metadata
WheelReturn ==
    /\ w_pc = "loop"
    /\ w_i = Len(w_libs)
    /\ w_pc' = "returned"
    /\ w_result' = wheel_metadata
    /\ UNCHANGED <<w_cuda, w_target, w_libs, w_i, w_recs, wheel_metadata>>
    /\ UNCHANGED <<shiftVars, kmeansVars>>

NextWheel == WheelLibrary \/ WheelReturn

SpecWheel == InitWheel /\ [][NextWheel]_vars

(* Properties of the wheel metadata generator.                             *)

HasMatch(records, cuda_version) ==
    \E j \in 1..Len(records) : records[j].cuda = cuda_version

\* the first record for cuda_version has assets for the system
FirstMatchHasAssets(records, cuda_version, system) ==
    \E j \in 1..Len(records) :
        /\ records[j].cuda = cuda_version
        /\ \A k \in 1..(j - 1) : records[k].cuda # cuda_version
        /\ system \in DOMAIN records[j].assets

\* C3: when the records returned for a library hold none for the requested
\* CUDA version (an empty list included), RuntimeError is raised and nothing
\* is ever returned, whatever earlier libraries contributed.
C3_RaisesWithoutMatch ==
    (w_i > 0 /\ ~HasMatch(w_recs, w_cuda)) =>
        /\ w_pc = "RuntimeError"
        /\ w_result = <<>>

C3_Witness ==
    /\ w_pc = "RuntimeError" /\ w_i = 2 /\ Len(w_recs) = 2
    /\ w_libs[1] \in DOMAIN wheel_metadata

\* C4 as stated: once the records of a library hold one for the requested
\* CUDA version, that library never makes the call fail.
C4_MatchAlwaysReturns ==
    (w_i > 0 /\ HasMatch(w_recs, w_cuda)) => w_pc \in {"loop", "returned"}

\* C4, amended: when the first record for the requested CUDA version also has
\* assets for the target system, the library is entered with exactly version
\* and filenames of that record; the keys are exactly cuda, packaging and the
\* libraries taken up so far; entries of other libraries stay; the returned
\* mapping is the one built.
C4_MetadataShape ==
    /\ [](w_pc \in {"loop", "returned"} =>
            /\ DOMAIN wheel_metadata =
                  {"cuda", "packaging"} \cup {w_libs[j] : j \in 1..w_i}
            /\ wheel_metadata["cuda"] = w_cuda
            /\ wheel_metadata["packaging"] = "pip"
            /\ w_i > 0 =>
                 \E j \in 1..Len(w_recs) :
                    /\ w_recs[j].cuda = w_cuda
                    /\ \A k \in 1..(j - 1) : w_recs[k].cuda # w_cuda
                    /\ DOMAIN wheel_metadata[w_libs[w_i]] = {"version", "filenames"}
                    /\ wheel_metadata[w_libs[w_i]].version = w_recs[j].version
                    /\ wheel_metadata[w_libs[w_i]].filenames =
                          w_recs[j].assets[w_target].filenames)
    /\ [](w_pc = "returned" => (w_result = wheel_metadata /\ w_i = Len(w_libs)))
    /\ [][(w_pc = "loop" /\ w_i' = w_i + 1) =>
            /\ FirstMatchHasAssets(w_recs', w_cuda, w_target) => w_pc' = "loop"
            /\ \A j \in 1..w_i : w_libs[j] # w_libs[w_i + 1] =>
                  wheel_metadata'[w_libs[j]] = wheel_metadata[w_libs[j]]]_vars

C4_Witness ==
    /\ w_pc = "returned" /\ Len(w_libs) = 2 /\ w_libs[1] # w_libs[2]
    /\ Len(w_recs) = 2 /\ w_recs[1].cuda # w_cuda
    /\ w_result[w_libs[2]].version = 2

----------------------------------------------------------------------------
(* The k-means example, use_custom_kernel.  A center is kept as the sums   *)
(* of its points' coordinates and their count; count 0 is the NaN row a    *)
(* mean over no points gives.  Distances are compared by their squares.    *)

NumPoints == 3
MaxClusters == 3
MaxIter == 3
data_dim == 2

PointValues == {<<0, 0>>, <<0, 1>>, <<2, 0>>, <<3, 3>>}
Dims == 1..data_dim
DataSets == [1..NumPoints -> PointValues]

Min(a, b) == IF a < b THEN a ELSE b

\* np.random.choice(len(X), n_clusters, replace=False)
IndexChoices(n, k) ==
    {c \in [1..k -> 1..n] : \A i, j \in 1..k : i # j => c[i] # c[j]}

RECURSIVE SumOver(_, _)
SumOver(f, S) ==
    IF S = {} THEN 0
    ELSE LET e == CHOOSE e \in S : TRUE IN f[e] + SumOver(f, S \ {e})

\* squared distance of point x to center c as a fraction; d = 0 is NaN
SqDist(x, c) ==
    [n |-> SumOver([d \in Dims |-> (c.cnt * x[d] - c.sum[d]) * (c.cnt * x[d] - c.sum[d])],
                   Dims),
     d |-> c.cnt * c.cnt]

IsNaN(q) == q.d = 0
Less(a, b) == a.n * b.d < b.n * a.d

\* xp.linalg.norm(X[:, None, :] - centers[None, :, :], axis=2)
DistancesNorm(data, cs) ==
    [p \in DOMAIN data |-> [j \in DOMAIN cs |-> SqDist(data[p], cs[j])]]

\* the calc_distances kernel: columns 0 and 1 of dist from centers 0 and 1
DistancesKernel(data, cs) ==
    [p \in DOMAIN data |-> [j \in 1..2 |-> SqDist(data[p], cs[j])]]

\* argmin of one row: the first NaN if there is one, else the first minimum
ArgminRow_LastMinimum(row) ==
    IF \E j \in DOMAIN row : IsNaN(row[j])
    THEN CHOOSE j \in DOMAIN row :
            IsNaN(row[j]) /\ \A k \in DOMAIN row : k < j => ~IsNaN(row[k])
    ELSE CHOOSE j \in DOMAIN row :
            /\ \A k \in DOMAIN row : ~Less(row[k], row[j])
            /\ \A k \in DOMAIN row : k > j => Less(row[j], row[k])

ArgminRow(row) ==
    IF \E j \in DOMAIN row : IsNaN(row[j])
    THEN CHOOSE j \in DOMAIN row :
            IsNaN(row[j]) /\ \A k \in DOMAIN row : k < j => ~IsNaN(row[k])
    ELSE CHOOSE j \in DOMAIN row :
            /\ \A k \in DOMAIN row : ~Less(row[k], row[j])
            /\ \A k \in DOMAIN row : k < j => Less(row[j], row[k])

\* xp.argmin(distances, axis=1): labels count from 0
Argmin(distances) == [p \in DOMAIN distances |-> ArgminRow(distances[p]) - 1]

\* xp.all(new_pred == pred)
AllEqual_Any(new_pred, old_pred) ==
    \E p \in DOMAIN old_pred : new_pred[p] = old_pred[p]

AllEqual(new_pred, old_pred) ==
    \A p \in DOMAIN old_pred : new_pred[p] = old_pred[p]

Members(labels, i) == {p \in DOMAIN labels : labels[p] = i}

\* xp.stack([X[pred == i].mean(axis=0) for i in range(n_clusters)])
CentersMean(data, labels, k) ==
    [j \in 1..k |->
        LET M == Members(labels, j - 1)
        IN [sum |-> [d \in Dims |-> SumOver([p \in DOMAIN data |-> data[p][d]], M)],
            cnt |-> Cardinality(M)]]

\* the calc_center kernel: every element adds to its center's sum and to
\* its group; then group /= data_dim and centers /= group[:, None]
CentersKernel(data, labels, k) ==
    [j \in 1..k |->
        LET M == Members(labels, j - 1)
            group == Cardinality(M \X Dims)
        IN [sum |-> [d \in Dims |-> SumOver([p \in DOMAIN data |-> data[p][d]], M)],
            cnt |-> group \div data_dim]]

InitKMeans ==
    /\ k_pc = "start"
    /\ X = <<>> /\ n_clusters = 0 /\ max_iter = 0 /\ elem = FALSE
    /\ centers = <<>> /\ pred = <<>> /\ k_iter = 0 /\ k_exit = "none"
    /\ IdleShift
    /\ IdleWheel

\* the call with its arguments, up to the loop: pred is all zeros and the
\* centers are n_clusters distinct rows of X picked at random
KMeansCall ==
    /\ k_pc = "start"
    /\ k_pc' = "loop"
    /\ X' \in DataSets
    /\ n_clusters' \in 1..Min(MaxClusters, NumPoints)
    /\ max_iter' \in 0..MaxIter
    /\ elem' \in {b \in BOOLEAN : b => n_clusters' = 2}
    /\ pred' = [p \in 1..NumPoints |-> 0]
    /\ \E initial_indexes \in IndexChoices(NumPoints, n_clusters') :
          centers' = [j \in 1..n_clusters' |->
                         [sum |-> X'[initial_indexes[j]], cnt |-> 1]]
    /\ UNCHANGED <<k_iter, k_exit>>
    /\ UNCHANGED <<shiftVars, wheelVars>>

\* one pass of the body of `for _ in six.moves.range(max_iter)`
KMeansIterate ==
    /\ k_pc = "loop"
    /\ k_iter < max_iter
    /\ k_iter' = k_iter + 1
    /\ LET distances == IF elem THEN DistancesKernel(X, centers)
                        ELSE DistancesNorm(X, centers)
           new_pred == Argmin(distances)
       IN IF AllEqual(new_pred, pred)
          THEN /\ k_pc' = "done"
               /\ k_exit' = "break"
               /\ UNCHANGED <<pred, centers>>
          ELSE /\ pred' = new_pred
               /\ centers' = IF elem THEN CentersKernel(X, new_pred, n_clusters)
                             ELSE CentersMean(X, new_pred, n_clusters)
               /\ UNCHANGED <<k_pc, k_exit>>
    /\ UNCHANGED <<X, n_clusters, max_iter, elem>>
    /\ UNCHANGED <<shiftVars, wheelVars>>

\* the range is used up: return centers, pred
KMeansReturn ==
    /\ k_pc = "loop"
    /\ k_iter = max_iter
    /\ k_pc' = "done"
    /\ k_exit' = "exhausted"
    /\ UNCHANGED <<X, n_clusters, max_iter, elem, centers, pred, k_iter>>
    /\ UNCHANGED <<shiftVars, wheelVars>>

NextKMeans == KMeansCall \/ KMeansIterate \/ KMeansReturn

SpecKMeans == InitKMeans /\ [][NextKMeans]_vars

(* Properties of the k-means example.                                      *)

\* label l is what argmin gives point p for the centers cs
IsArgminLabel(p, l, cs) ==
    LET dist(j) == SqDist(X[p], cs[j + 1])
        L == 0..(Len(cs) - 1)
    IN IF \E j \in L : IsNaN(dist(j))
       THEN IsNaN(dist(l)) /\ \A j \in L : j < l => ~IsNaN(dist(j))
       ELSE /\ \A j \in L : ~Less(dist(j), dist(l))
            /\ \A j \in L : j < l => Less(dist(l), dist(j))

LabelsAreArgmin(labels, cs) ==
    \A p \in DOMAIN labels : labels[p] \in 0..(Len(cs) - 1) /\ IsArgminLabel(p, labels[p], cs)

\* C9: the loop ends: every step taken in the loop either ends it or begins
\* one more pass, and no more than max_iter passes are begun; a pass whose
\* labels come out as the previous ones ends the loop with centers and labels
\* as they were, any other pass changes the labels and goes on.
C9_Terminates ==
    /\ [](k_iter <= max_iter)
    /\ [][k_pc = "loop" => (k_pc' = "done" \/ k_iter' = k_iter + 1)]_vars
    /\ [][(k_pc = "loop" /\ k_iter' = k_iter + 1) =>
            IF LabelsAreArgmin(pred, centers)
            THEN k_pc' = "done" /\ k_exit' = "break"
                 /\ centers' = centers /\ pred' = pred
            ELSE k_pc' = "loop" /\ pred' # pred]_vars

C9_Witness ==
    /\ k_pc = "done" /\ k_exit = "break" /\ k_iter = 1 /\ max_iter > 1
    /\ \A p \in DOMAIN pred : pred[p] = 0
    /\ n_clusters > 1

\* C10: after the loop ended by the break, every center is a mean of at
\* least one point or an initial point, and every point's label is the index
\* of its nearest returned center, the lowest such index on ties.
C10_LabelsConsistentAtBreak ==
    (k_pc = "done" /\ k_exit = "break") =>
        \A p \in DOMAIN pred :
            LET dist(j) == SqDist(X[p], centers[j + 1])
                L == 0..(n_clusters - 1)
            IN /\ pred[p] \in L
               /\ \A j \in L : ~IsNaN(dist(j))
               /\ \A j \in L : ~Less(dist(j), dist(pred[p]))
               /\ \A j \in L : j < pred[p] => Less(dist(pred[p]), dist(j))

C10_Witness ==
    /\ k_pc = "done" /\ k_exit = "break" /\ k_iter > 1
    /\ \E p, q \in DOMAIN pred : pred[p] # pred[q]

\* reached: the range was used up after at least one pass and some label is
\* not the index of the nearest returned center
ExhaustedInconsistent ==
    /\ k_pc = "done" /\ k_exit = "exhausted" /\ k_iter > 0
    /\ ~LabelsAreArgmin(pred, centers)

----------------------------------------------------------------------------
(* Properties of the exponential shift runs.                               *)

RECURSIVE Pow(_, _)
Pow(r, k) == IF k = 0 THEN Rat(1, 1) ELSE Mul(r, Pow(r, k - 1))

AbsLess(a, b) == Abs(a.n) * b.d < Abs(b.n) * a.d

\* v0 * r^k, cut at the target once it has been crossed
ExpectedValue(v0, r, t, k) ==
    LET p == Mul(v0, Pow(r, k))
    IN IF IsNone(t) THEN p
       ELSE IF r.n > r.d THEN (IF AbsLess(t, p) THEN t ELSE p)
       ELSE (IF AbsLess(p, t) THEN t ELSE p)

C5_NegativeRateRejected ==
    (s_rate.n < 0 /\ s_pc # "setup") =>
        /\ s_pc = "ValueError"
        /\ ext = NoExt
        /\ iteration = 0
        /\ opt_x = (IF s_mode = "with_init" THEN Rat(0, 1) ELSE s_init)
        /\ own_x = (IF s_mode = "with_optimizer" THEN s_init ELSE None)
        /\ IsNone(observed)

C5_Witness ==
    /\ s_pc = "ValueError" /\ s_rate.n < 0
    /\ s_mode = "with_init" /\ ~IsNone(s_target)

\* C6: an update alone leaves the attribute as it was (the test observes the
\* value held before the update), and a loop pass changes the attribute only
\* when the iteration count reaches a multiple of the interval.
C6_MutatedOnlyAtTriggers ==
    [][(s_pc = "loop" /\ iteration' = iteration + 1) =>
          /\ observed' = Attr
          /\ (iteration' % interval # 0 => Attr' = Attr)
          /\ (iteration % interval # 0 => observed' = observed)]_vars

C6_Witness ==
    /\ s_pc = "loop" /\ restores = 0 /\ iteration = 2 * interval - 1
    /\ observed # s_init /\ observed = Attr

\* C7: with a target, the managed value never passes the target in magnitude
\* (growing: at most the target, otherwise: at least the target), and once
\* it equals the target it stays equal.
C7_NeverPassesTarget ==
    /\ [](((s_pc = "loop") /\ ~IsNone(s_target)) =>
            IF s_rate.n > s_rate.d THEN ~AbsLess(s_target, Attr)
            ELSE ~AbsLess(Attr, s_target))
    /\ [][(s_pc \in {"loop", "constructed"} /\ ext.applied
           /\ ~IsNone(s_target) /\ Attr = s_target) => Attr' = s_target]_vars

C7_Witness ==
    /\ s_pc = "loop" /\ iteration = 2 * interval
    /\ s_init.n < 0 /\ Attr = s_target

\* C8: constructed with init, the run starts from init whatever the attribute
\* held (it was preset to 0), and every observed value equals that of the run
\* whose attribute held init and that was given no init.
C8_WithInitSameTrajectory ==
    (s_mode = "with_init" /\ s_pc = "loop") =>
        /\ Attr = ref_x
        /\ iteration > 0 => observed = ref_observed
        /\ (iteration > 0 /\ iteration <= interval) => observed = s_init

C8_Witness ==
    /\ s_mode = "with_init" /\ s_pc = "loop" /\ iteration = interval + 1
    /\ observed # s_init /\ ~IsNone(observed)

====
